---- MODULE Spec2Model ----
(***************************************************************************)
(* DelphiOracle (src/contract/oracle.cpp): the eosusd price window, the    *)
(* per-oracle write statistics, the approved-oracles list and the three    *)
(* actions write, setoracles and clear.                                    *)
(*                                                                         *)
(* Every action of the contract runs as one transaction of the host chain: *)
(* a failed eosio_assert / require_auth, or a rejected table insert,       *)
(* aborts the transaction and none of its table writes persist.  Each      *)
(* action below is therefore one atomic step that either applies all of    *)
(* the handler's writes or leaves the three tables untouched.              *)
(***************************************************************************)
EXTENDS Integers, Sequences, FiniteSets

VARIABLES
    usdstore,   \* usdtable: set of eosusd rows [id, owner, value, average, timestamp]
    store,      \* statstable: set of eosusdstats rows [owner, timestamp, count]
    oracles,    \* oraclestable: set of owner names
    ctime,      \* host: current_time(), microseconds
    producers,  \* host: the names get_active_producers() returns
    call,       \* the last step taken: the action invoked and its arguments
    result,     \* outcome of that step: Ok or the message of the failed check
    pre,        \* the tables (and hist) as they were before that step
    hist,       \* history: per account, the times of its last accepted writes
    ncalls      \* number of actions pushed to the contract so far

vars == <<usdstore, store, oracles, ctime, producers, call, result, pre, hist, ncalls>>

----------------------------------------------------------------------------
(* Program constants *)

titan_account == "eostitanprod"

datapoints_count == 21

val_min == 100
val_max == 100000000

one_minute == 1000000 * 55

(* Number of low-ranked rows the value-sorted iterator steps over before   *)
(* the summing loop (the five itr++ of lines 175-179), and the number of   *)
(* loop iterations (line 182).                                             *)
skip_steps == 5
avg_steps == 9

----------------------------------------------------------------------------
(* Bounds of the model *)

\* Width of the id word.  The code's ids are uint64_t; TLC's integers are
\* 32-bit, so ids are kept in a narrower word with the same modular
\* arithmetic.  Wrapping needs 2^IdBits accepted writes without a clear.
IdBits == 16

\* Number of accepted writes replayed to build the warm initial state.
WarmLen == 20

\* Number of minimum intervals the clock may advance past the start time.
MaxTicks == 1

\* Longest oracleslist passed to setoracles.
MaxListLen == 2

\* Number of actions pushed to the contract in one run.
MaxCalls == 3

----------------------------------------------------------------------------
(* Inputs *)

Accounts == {titan_account, "bp1", "alice"}

\* Producer schedules the host may report.
ProducerSets == {{}, {"bp1"}}

\* Values offered to write: both range limits and their outer neighbours.
Values == {val_min - 1, val_min, val_max, val_max + 1}

\* Clock advances: one microsecond short of the minimum interval, and the
\* interval itself.
TickSteps == {one_minute - 1, one_minute}

RECURSIVE SeqsUpTo(_, _)
SeqsUpTo(S, n) ==
    IF n = 0 THEN {<<>>}
    ELSE LET shorter == SeqsUpTo(S, n - 1)
         IN  shorter \cup {Append(s, x) : s \in shorter, x \in S}

\* Accounts that sign transactions: the controlling account and another one.
Signers == {titan_account, "alice"}

\* A write names its owner and is signed by the owner or by somebody else.
WriteSigners(owner) == {owner, "alice"}

OracleLists == SeqsUpTo({titan_account, "alice"}, MaxListLen)

----------------------------------------------------------------------------
(* Outcomes: Ok, or the message of the check that aborted the transaction *)

Ok == "ok"
AuthMismatch == "missing authority of owner"
Unauthorized == "missing authority of eostitanprod"
OutOfRange == "value outside of allowed range"
NotQualified == "account is not an active producer or approved oracle"
RateLimited == "can only call every 60 seconds"
UniquenessViolated == "could not insert object, most likely a uniqueness constraint was violated"

----------------------------------------------------------------------------
(* multi_index views of the eosusd table *)

SEQ_MAX == 2^IdBits - 1

Ids(usd) == {o.id : o \in usd}

\* usdstore.begin(): the row with the smallest primary key.
Begin(usd) == CHOOSE o \in usd : \A p \in usd : o.id <= p.id

\* Faulty variant of Last: pops the newest row instead of the oldest.
Last_Newest(usd) == Begin(usd)

\* usdstore.end() decremented once: the row with the largest primary key.
Last(usd) == CHOOSE o \in usd : \A p \in usd : p.id <= o.id

\* Order of the secondary index N(value): by value, ties by primary key.
ValueBefore(a, b) == a.value < b.value \/ (a.value = b.value /\ a.id <= b.id)

RECURSIVE ValueSorted(_)
ValueSorted(usd) ==
    IF usd = {} THEN <<>>
    ELSE LET first == CHOOSE o \in usd : \A p \in usd : ValueBefore(o, p)
         IN  <<first>> \o ValueSorted(usd \ {first})

\* The summing loop: from iterator position itr, avg_steps times advance
\* the iterator and then add the value it points at.
RECURSIVE SumLoop(_, _, _)
SumLoop(sorted, itr, i) ==
    IF i >= avg_steps THEN 0
    ELSE sorted[itr + 1].value + SumLoop(sorted, itr + 1, i + 1)

\* Faulty variant of TrimmedAverage: one iterator increment fewer before
\* the loop, so the loop sums the rows ranked 6th to 14th.
TrimmedAverage_SkipFour(usd) == SumLoop(ValueSorted(usd), skip_steps, 0) \div 9

\* value_sorted.begin() is position 1; skip_steps increments later the
\* iterator is at position 1 + skip_steps, where the loop starts.
TrimmedAverage(usd) == SumLoop(ValueSorted(usd), 1 + skip_steps, 0) \div 9

----------------------------------------------------------------------------
(* check_oracle *)

\* Faulty variant of CheckOracle: the producers array is not consulted.
CheckOracle_ListOnly(orc, prods, owner) == owner \in orc

\* The linear scan of the oracles table, then of the producers array.  The
\* array is zero-padded to 21 entries; the padding matches only the empty
\* name 0, which no transaction can be signed with, so it is left out.
CheckOracle(orc, prods, owner) == owner \in orc \/ owner \in prods

----------------------------------------------------------------------------
(* check_last_push *)

HasStats(st, owner) == \E s \in st : s.owner = owner

GetStats(st, owner) == CHOOSE s \in st : s.owner = owner

\* Faulty variants of LastPushAllowed: the interval is one microsecond
\* short; the assertion is missing.
LastPushAllowed_OffByOne(st, owner, now) ==
    HasStats(st, owner) => GetStats(st, owner).timestamp + one_minute <= now + 1

LastPushAllowed_Always(st, owner, now) == TRUE

\* Faulty variant of LastPushAllowed: the interval must be exceeded.
LastPushAllowed_Strict(st, owner, now) ==
    HasStats(st, owner) => GetStats(st, owner).timestamp + one_minute < now

\* The eosio_assert of line 117; vacuous when the owner has no row.
LastPushAllowed(st, owner, now) ==
    HasStats(st, owner) => GetStats(st, owner).timestamp + one_minute <= now

\* Faulty variant of CheckLastPush: a new row starts with count 1.
CheckLastPush_CountFromOne(st, owner, now) ==
    IF HasStats(st, owner)
    THEN LET last == GetStats(st, owner)
         IN  (st \ {last}) \cup
             {[owner |-> owner, timestamp |-> now, count |-> last.count + 1]}
    ELSE st \cup {[owner |-> owner, timestamp |-> now, count |-> 1]}

\* Faulty variant of CheckLastPush: the count of an existing row is kept.
CheckLastPush_KeepsCount(st, owner, now) ==
    IF HasStats(st, owner)
    THEN LET last == GetStats(st, owner)
         IN  (st \ {last}) \cup
             {[owner |-> owner, timestamp |-> now, count |-> last.count]}
    ELSE st \cup {[owner |-> owner, timestamp |-> now, count |-> 0]}

\* The table after check_last_push passed.
CheckLastPush(st, owner, now) ==
    IF HasStats(st, owner)
    THEN LET last == GetStats(st, owner)
         IN  (st \ {last}) \cup
             {[owner |-> owner, timestamp |-> now, count |-> last.count + 1]}
    ELSE st \cup {[owner |-> owner, timestamp |-> now, count |-> 0]}

----------------------------------------------------------------------------
(* update_eosusd_oracle *)

\* Faulty variant of PrimaryKey: counts upwards.
PrimaryKey_Increment(usd) ==
    IF Cardinality(usd) > 0
    THEN (Begin(usd).id + 1) % (2^IdBits)
    ELSE SEQ_MAX

\* latest->id - 1 in the id word.
PrimaryKey(usd) ==
    IF Cardinality(usd) > 0
    THEN (Begin(usd).id + 2^IdBits - 1) % (2^IdBits)
    ELSE SEQ_MAX

\* Faulty variant of Remaining: the oldest row is never popped.
Remaining_NoPop(usd) == usd

\* The rows the new row is emplaced into: the table, less the popped
\* oldest row when the new size would exceed datapoints_count.
Remaining(usd) ==
    IF Cardinality(usd) > 0 /\ Cardinality(usd) + 1 > datapoints_count
    THEN usd \ {Last(usd)}
    ELSE usd

\* emplace is rejected by the host when the primary key is already stored.
KeyCollision(usd) == PrimaryKey(usd) \in Ids(Remaining(usd))

Row(id, owner, value, average, now) ==
    [id |-> id, owner |-> owner, value |-> value, average |-> average,
     timestamp |-> now]

\* Faulty variants of UpdateEosusdOracle.  _Unset: a row added to a window
\* that is neither empty nor full carries no average.  _FirstUnset: the
\* row added to an empty window carries no average.  _Retroactive: the
\* average computed in the full branch is written to every row.
UpdateEosusdOracle_Unset(usd, owner, value, now) ==
    LET size == Cardinality(usd)
        primary_key == PrimaryKey(usd)
    IN  IF size > 0
        THEN IF size + 1 > datapoints_count
             THEN LET kept == Remaining(usd)
                      placed == kept \cup {Row(primary_key, owner, value, 0, now)}
                  IN  kept \cup
                      {Row(primary_key, owner, value, TrimmedAverage(placed), now)}
             ELSE usd \cup {Row(primary_key, owner, value, 0, now)}
        ELSE {Row(primary_key, owner, value, value, now)}

UpdateEosusdOracle_FirstUnset(usd, owner, value, now) ==
    LET size == Cardinality(usd)
        primary_key == PrimaryKey(usd)
    IN  IF size > 0
        THEN IF size + 1 > datapoints_count
             THEN LET kept == Remaining(usd)
                      placed == kept \cup {Row(primary_key, owner, value, 0, now)}
                  IN  kept \cup
                      {Row(primary_key, owner, value, TrimmedAverage(placed), now)}
             ELSE usd \cup {Row(primary_key, owner, value, value, now)}
        ELSE {Row(primary_key, owner, value, 0, now)}

UpdateEosusdOracle_Retroactive(usd, owner, value, now) ==
    LET size == Cardinality(usd)
        primary_key == PrimaryKey(usd)
    IN  IF size > 0
        THEN IF size + 1 > datapoints_count
             THEN LET kept == Remaining(usd)
                      placed == kept \cup {Row(primary_key, owner, value, 0, now)}
                  IN  {[o EXCEPT !.average = TrimmedAverage(placed)] : o \in placed}
             ELSE usd \cup {Row(primary_key, owner, value, value, now)}
        ELSE {Row(primary_key, owner, value, value, now)}

\* The table after update_eosusd_oracle.  In the full branch the row is
\* emplaced without an average and modified right after; the average does
\* not take part in the value order, so the sum is taken over the table
\* holding the new row and the row is stored with the final average.
UpdateEosusdOracle(usd, owner, value, now) ==
    LET size == Cardinality(usd)
        primary_key == PrimaryKey(usd)
    IN  IF size > 0
        THEN IF size + 1 > datapoints_count
             THEN LET kept == Remaining(usd)
                      placed == kept \cup {Row(primary_key, owner, value, 0, now)}
                  IN  kept \cup
                      {Row(primary_key, owner, value, TrimmedAverage(placed), now)}
             ELSE usd \cup {Row(primary_key, owner, value, value, now)}
        ELSE {Row(primary_key, owner, value, value, now)}

----------------------------------------------------------------------------
(* write *)

\* Faulty variant of WriteResult: the qualification is asserted before the
\* range.
WriteResult_QualificationFirst(usd, st, orc, prods, now, caller, owner, value) ==
    IF caller # owner THEN AuthMismatch
    ELSE IF ~CheckOracle(orc, prods, owner) THEN NotQualified
    ELSE IF ~(value >= val_min /\ value <= val_max) THEN OutOfRange
    ELSE IF ~LastPushAllowed(st, owner, now) THEN RateLimited
    ELSE IF KeyCollision(usd) THEN UniquenessViolated
    ELSE Ok

\* Faulty variant of WriteResult: the range is not asserted.
WriteResult_NoRange(usd, st, orc, prods, now, caller, owner, value) ==
    IF caller # owner THEN AuthMismatch
    ELSE IF ~CheckOracle(orc, prods, owner) THEN NotQualified
    ELSE IF ~LastPushAllowed(st, owner, now) THEN RateLimited
    ELSE IF KeyCollision(usd) THEN UniquenessViolated
    ELSE Ok

\* Faulty variant of WriteResult: the range limits themselves are refused.
WriteResult_StrictRange(usd, st, orc, prods, now, caller, owner, value) ==
    IF caller # owner THEN AuthMismatch
    ELSE IF ~(value > val_min /\ value < val_max) THEN OutOfRange
    ELSE IF ~CheckOracle(orc, prods, owner) THEN NotQualified
    ELSE IF ~LastPushAllowed(st, owner, now) THEN RateLimited
    ELSE IF KeyCollision(usd) THEN UniquenessViolated
    ELSE Ok

WriteResult(usd, st, orc, prods, now, caller, owner, value) ==
    IF caller # owner THEN AuthMismatch
    ELSE IF ~(value >= val_min /\ value <= val_max) THEN OutOfRange
    ELSE IF ~CheckOracle(orc, prods, owner) THEN NotQualified
    ELSE IF ~LastPushAllowed(st, owner, now) THEN RateLimited
    ELSE IF KeyCollision(usd) THEN UniquenessViolated
    ELSE Ok

----------------------------------------------------------------------------
(* setoracles *)

\* The emplace loop of lines 255-259 over the emptied table: a name that is
\* already in the table is rejected by the host.
RECURSIVE EmplaceAll(_, _)
EmplaceAll(orc, list) ==
    IF list = <<>> THEN [ok |-> TRUE, rows |-> orc]
    ELSE IF Head(list) \in orc THEN [ok |-> FALSE, rows |-> orc]
    ELSE EmplaceAll(orc \cup {Head(list)}, Tail(list))

\* Faulty variant of SetOraclesResult: any signer may replace the list.
SetOraclesResult_AnySigner(caller, list) ==
    IF ~EmplaceAll({}, list).ok THEN UniquenessViolated
    ELSE Ok

SetOraclesResult(caller, list) ==
    IF caller # titan_account THEN Unauthorized
    ELSE IF ~EmplaceAll({}, list).ok THEN UniquenessViolated
    ELSE Ok

----------------------------------------------------------------------------
(* History of accepted writes (not program state).  For each account:      *)
(*   last, prev    times of its last two accepted writes, -1 when none     *)
(*   clearBetween  a clear was executed between those two writes           *)
(*   clearedSince  a clear was executed after the last accepted write      *)
(*   n             number of its accepted writes since the last clear      *)

NoHist == [prev |-> -1, last |-> -1, clearBetween |-> FALSE, clearedSince |-> FALSE,
           n |-> 0]

HistWrite(h, owner, now) ==
    [h EXCEPT ![owner] = [prev |-> h[owner].last, last |-> now,
                          clearBetween |-> h[owner].clearedSince,
                          clearedSince |-> FALSE,
                          n |-> h[owner].n + 1]]

HistClear(h) ==
    [a \in Accounts |->
        IF h[a].last # -1
        THEN [h[a] EXCEPT !.clearedSince = TRUE, !.n = 0]
        ELSE h[a]]

----------------------------------------------------------------------------
(* States *)

Tables(usd, st, orc, h) == [usdstore |-> usd, store |-> st, oracles |-> orc, hist |-> h]

\* The k-th write replayed into the warm state: bp1 and alice write in
\* turn, one pair per minimum interval, with pairwise distinct values.
WarmOwner(k) == IF k % 2 = 1 THEN "bp1" ELSE "alice"
WarmTime(k) == ((k + 1) \div 2) * one_minute
WarmValue(k) == 1000 * (((k * 7) % 23) + 1)

\* The tables after the first k replayed writes, each applied with the
\* operators of the write action.
RECURSIVE Replay(_)
Replay(k) ==
    IF k = 0 THEN Tables({}, {}, {"alice"}, [a \in Accounts |-> NoHist])
    ELSE LET t == Replay(k - 1)
         IN  Tables(UpdateEosusdOracle(t.usdstore, WarmOwner(k), WarmValue(k), WarmTime(k)),
                    CheckLastPush(t.store, WarmOwner(k), WarmTime(k)),
                    t.oracles,
                    HistWrite(t.hist, WarmOwner(k), WarmTime(k)))

StartTime == WarmTime(WarmLen)
MaxTime == StartTime + MaxTicks * one_minute

\* The contract as deployed (all tables empty), or after setoracles([alice])
\* and WarmLen accepted writes of bp1 and alice.
Init ==
    /\ ctime = StartTime
    /\ \/ /\ usdstore = {}
          /\ store = {}
          /\ oracles = {}
          /\ hist = [a \in Accounts |-> NoHist]
          /\ producers \in ProducerSets
       \/ /\ usdstore = Replay(WarmLen).usdstore
          /\ store = Replay(WarmLen).store
          /\ oracles = Replay(WarmLen).oracles
          /\ hist = Replay(WarmLen).hist
          /\ producers = {"bp1"}
    /\ call = [op |-> "init"]
    /\ result = Ok
    /\ ncalls = 0
    /\ pre = Tables(usdstore, store, oracles, hist)

----------------------------------------------------------------------------
(* Actions *)

Snapshot == pre' = Tables(usdstore, store, oracles, hist)

Pushed ==
    /\ ncalls < MaxCalls
    /\ ncalls' = ncalls + 1
    /\ Snapshot

Host ==
    /\ call' = [op |-> "host"]
    /\ result' = Ok
    /\ Snapshot
    /\ UNCHANGED <<usdstore, store, oracles, hist, ncalls>>

Write(caller, owner, value) ==
    /\ Pushed
    /\ call' = [op |-> "write", caller |-> caller, owner |-> owner, value |-> value]
    /\ result' = WriteResult(usdstore, store, oracles, producers, ctime, caller, owner, value)
    /\ IF result' = Ok
       THEN /\ store' = CheckLastPush(store, owner, ctime)
            /\ usdstore' = UpdateEosusdOracle(usdstore, owner, value, ctime)
            /\ hist' = HistWrite(hist, owner, ctime)
       ELSE UNCHANGED <<store, usdstore, hist>>
    /\ UNCHANGED <<oracles, ctime, producers>>

\* Faulty variant of SetOracles: the rows of accounts that are not on the
\* new list are taken out of the window and of the statistics.
SetOracles_Purges(caller, oracleslist) ==
    /\ Pushed
    /\ call' = [op |-> "setoracles", caller |-> caller, oracleslist |-> oracleslist]
    /\ result' = SetOraclesResult(caller, oracleslist)
    /\ IF result' = Ok
       THEN /\ oracles' = EmplaceAll({}, oracleslist).rows
            /\ usdstore' = {o \in usdstore : o.owner \in oracles'}
            /\ store' = {s \in store : s.owner \in oracles'}
       ELSE UNCHANGED <<oracles, usdstore, store>>
    /\ UNCHANGED <<ctime, producers, hist>>

SetOracles(caller, oracleslist) ==
    /\ Pushed
    /\ call' = [op |-> "setoracles", caller |-> caller, oracleslist |-> oracleslist]
    /\ result' = SetOraclesResult(caller, oracleslist)
    /\ IF result' = Ok
       THEN oracles' = EmplaceAll({}, oracleslist).rows
       ELSE UNCHANGED oracles
    /\ UNCHANGED <<usdstore, store, ctime, producers, hist>>

\* Faulty variant of Clear: the eosusdstats table is left as it is.
Clear_KeepsStats(caller) ==
    /\ Pushed
    /\ call' = [op |-> "clear", caller |-> caller]
    /\ result' = IF caller # titan_account THEN Unauthorized ELSE Ok
    /\ IF result' = Ok
       THEN /\ usdstore' = {}
            /\ oracles' = {}
            /\ hist' = HistClear(hist)
            /\ UNCHANGED store
       ELSE UNCHANGED <<store, usdstore, oracles, hist>>
    /\ UNCHANGED <<ctime, producers>>

Clear(caller) ==
    /\ Pushed
    /\ call' = [op |-> "clear", caller |-> caller]
    /\ result' = IF caller # titan_account THEN Unauthorized ELSE Ok
    /\ IF result' = Ok
       THEN /\ store' = {}
            /\ usdstore' = {}
            /\ oracles' = {}
            /\ hist' = HistClear(hist)
       ELSE UNCHANGED <<store, usdstore, oracles, hist>>
    /\ UNCHANGED <<ctime, producers>>

\* Host: block time advances.
Tick(d) ==
    /\ ctime + d <= MaxTime
    /\ ctime' = ctime + d
    /\ Host
    /\ UNCHANGED producers

\* Host: the active producer schedule changes.
Schedule(prods) ==
    /\ prods # producers
    /\ producers' = prods
    /\ Host
    /\ UNCHANGED ctime

Next ==
    \/ \E owner \in Accounts, value \in Values :
          \E caller \in WriteSigners(owner) : Write(caller, owner, value)
    \/ \E caller \in Signers, oracleslist \in OracleLists :
          SetOracles(caller, oracleslist)
    \/ \E caller \in Signers : Clear(caller)
    \/ \E d \in TickSteps : Tick(d)
    \/ \E prods \in ProducerSets : Schedule(prods)

Spec == Init /\ [][Next]_vars

----------------------------------------------------------------------------
(* Vocabulary of the properties *)

\* The last step was a write signed by its owner.
WriteBy(owner) == call.op = "write" /\ call.owner = owner /\ call.caller = owner

OwnWrite == call.op = "write" /\ call.caller = call.owner

AcceptedWrite == call.op = "write" /\ result = Ok

InRange(value) == val_min <= value /\ value <= val_max

\* The rows the last step added to the window.
NewRows == usdstore \ pre.usdstore

\* The k-th smallest value held in the rows usd (k = 1 is the smallest),
\* found by counting and not by sorting.
KthValue(usd, k) ==
    CHOOSE v \in {o.value : o \in usd} :
        /\ Cardinality({o \in usd : o.value < v}) < k
        /\ k <= Cardinality({o \in usd : o.value <= v})

RECURSIVE RankedSum(_, _, _)
RankedSum(usd, lo, hi) ==
    IF lo > hi THEN 0 ELSE KthValue(usd, lo) + RankedSum(usd, lo + 1, hi)

TablesUnchanged ==
    /\ usdstore = pre.usdstore
    /\ store = pre.store
    /\ oracles = pre.oracles

----------------------------------------------------------------------------
(* C1 *)

\* C1 as stated: a write accepted on a window of 21 rows stores on the new
\* row floor(sum of the values ranked 6th to 14th / 9), taken over the 21
\* rows held after the pop and the insert.
C1_Original ==
    (AcceptedWrite /\ Cardinality(pre.usdstore) = datapoints_count) =>
        /\ Cardinality(usdstore) = datapoints_count
        /\ \A o \in NewRows : o.average = RankedSum(usdstore, 6, 14) \div 9

\* C1 amended: a write accepted on a window of 21 rows stores on the new
\* row floor(sum of the values ranked 7th to 15th / 9), taken over the 21
\* rows held after the pop and the insert; the values ranked 1st to 6th and
\* 16th to 21st do not contribute.
C1_TrimmedAverage ==
    (AcceptedWrite /\ Cardinality(pre.usdstore) = datapoints_count) =>
        /\ Cardinality(usdstore) = datapoints_count
        /\ Cardinality(NewRows) = 1
        /\ \A o \in NewRows : o.average = RankedSum(usdstore, 7, 15) \div 9

C1_Witness ==
    /\ AcceptedWrite
    /\ Cardinality(pre.usdstore) = datapoints_count
    /\ \E o \in NewRows :
          /\ o.average = RankedSum(usdstore, 7, 15) \div 9
          /\ o.average # RankedSum(usdstore, 6, 14) \div 9
          /\ o.average # o.value

----------------------------------------------------------------------------
(* C2 *)

\* C2 as stated: for every account, its last two accepted writes are at
\* least one_minute apart, in every run of write, setoracles and clear.
C2_Original ==
    \A a \in Accounts :
        hist[a].prev # -1 => hist[a].last - hist[a].prev >= one_minute

\* C2 amended: for every account, its last two accepted writes are at
\* least one_minute apart unless a clear was executed between them (a clear
\* erases the account's eosusdstats row, and with it the limit).
C2_MinInterval ==
    \A a \in Accounts :
        (hist[a].prev # -1 /\ ~hist[a].clearBetween) =>
            hist[a].last - hist[a].prev >= one_minute

C2_Witness ==
    \E a \in Accounts :
        /\ AcceptedWrite
        /\ WriteBy(a)
        /\ hist[a].last = ctime
        /\ hist[a].prev # -1
        /\ ~hist[a].clearBetween
        /\ hist[a].last - hist[a].prev = one_minute

----------------------------------------------------------------------------
(* C3 *)

ClearDone == call.op = "clear" /\ result = Ok

\* The last step was an in-range write signed by its owner, the first one
\* accepted or refused on the grounds of the tables since a clear that
\* erased the owner's eosusdstats row while the row still barred writes at
\* the present time.
WriteAfterClear(a) ==
    /\ WriteBy(a)
    /\ InRange(call.value)
    /\ pre.hist[a].clearedSince
    /\ pre.hist[a].last + one_minute > ctime

\* C3 as stated: after a clear by titan_account the three tables are empty,
\* and the next in-range write of an account that was rate-limited just
\* before the clear is accepted, at the same timestamp.
C3_Original ==
    /\ ClearDone => (store = {} /\ usdstore = {} /\ oracles = {})
    /\ \A a \in Accounts : WriteAfterClear(a) => result = Ok

\* C3 amended: after a clear by titan_account the three tables are empty,
\* and the next in-range write of an account that was rate-limited just
\* before the clear is never refused for the rate limit: it is accepted when
\* the account is qualified at that time (an active producer, or put back
\* on the oracles list by setoracles) and refused as not qualified
\* otherwise, the clear having emptied the oracles list too.
C3_ClearResets ==
    /\ ClearDone => (store = {} /\ usdstore = {} /\ oracles = {})
    /\ \A a \in Accounts :
          WriteAfterClear(a) =>
              result = IF CheckOracle(oracles, producers, a) THEN Ok ELSE NotQualified

C3_Witness ==
    \E a \in Accounts :
        /\ WriteAfterClear(a)
        /\ pre.store = {}
        /\ pre.hist[a].last = ctime
        /\ result = Ok

----------------------------------------------------------------------------
(* C4 *)

Range(list) == {list[i] : i \in 1..Len(list)}

\* C4: setoracles(oracleslist) signed by titan_account succeeds for every
\* list, the empty list and lists with repeated names included, and leaves
\* the oracles table holding exactly the names of the list.
C4_SetOraclesAnyList ==
    (call.op = "setoracles" /\ call.caller = titan_account) =>
        /\ result = Ok
        /\ oracles = Range(call.oracleslist)

----------------------------------------------------------------------------
(* C5 *)

\* C5: the window never holds more than datapoints_count = 21 rows.
C5_WindowBound == Cardinality(usdstore) <= datapoints_count

C5_Witness ==
    /\ AcceptedWrite
    /\ Cardinality(pre.usdstore) = datapoints_count
    /\ Cardinality(usdstore) = datapoints_count

----------------------------------------------------------------------------
(* C6 *)

\* C6: a write accepted on a window of 21 rows removes exactly one row, the
\* one with the largest id, which is the oldest row stored, adds the new
\* row and leaves 21 rows; a write accepted on a smaller window removes
\* nothing and adds one row.
C6_Eviction ==
    AcceptedWrite =>
        IF Cardinality(pre.usdstore) = datapoints_count
        THEN /\ Cardinality(pre.usdstore \ usdstore) = 1
             /\ \A gone \in pre.usdstore \ usdstore :
                   \A o \in pre.usdstore :
                       /\ o.id <= gone.id
                       /\ gone.timestamp <= o.timestamp
             /\ Cardinality(NewRows) = 1
             /\ Cardinality(usdstore) = datapoints_count
        ELSE /\ pre.usdstore \subseteq usdstore
             /\ Cardinality(usdstore) = Cardinality(pre.usdstore) + 1

C6_Witness ==
    /\ AcceptedWrite
    /\ Cardinality(pre.usdstore) = datapoints_count
    /\ \E gone \in pre.usdstore \ usdstore : gone.id = SEQ_MAX
    /\ Cardinality(usdstore) = datapoints_count

----------------------------------------------------------------------------
(* C7 *)

\* C7: ids decrease with the order of insertion.  The row of a write
\* accepted on an empty window gets SEQ_MAX; the row of any other accepted
\* write gets the smallest stored id minus 1, which is below every id
\* stored; so the row with the smallest id is the one accepted last, and a
\* row with a smaller id was never inserted before one with a larger id.
C7_Sequence ==
    /\ AcceptedWrite =>
          /\ Cardinality(NewRows) = 1
          /\ \A new \in NewRows :
                /\ new.id = IF pre.usdstore = {} THEN SEQ_MAX
                            ELSE Begin(pre.usdstore).id - 1
                /\ \A o \in pre.usdstore : o.id > new.id
                /\ new = Begin(usdstore)
                /\ new.owner = call.owner /\ new.timestamp = ctime
    /\ \A a \in usdstore : \A b \in usdstore :
          a.id < b.id => a.timestamp >= b.timestamp

C7_Witness ==
    /\ AcceptedWrite
    /\ Cardinality(pre.usdstore) = datapoints_count
    /\ Begin(usdstore).id = SEQ_MAX - datapoints_count
    /\ Begin(usdstore).id < Begin(pre.usdstore).id

----------------------------------------------------------------------------
(* C8 *)

\* The last step was a write signed by its owner, who had an eosusdstats
\* row less than one_minute old.
WriteTooEarly ==
    /\ OwnWrite
    /\ HasStats(pre.store, call.owner)
    /\ ctime < GetStats(pre.store, call.owner).timestamp + one_minute

\* C8 as stated: a write of an account with an eosusdstats row, made before
\* timestamp + one_minute, is refused as rate-limited and changes neither
\* that row nor the window.
C8_Original ==
    WriteTooEarly =>
        /\ result = RateLimited
        /\ store = pre.store
        /\ usdstore = pre.usdstore

\* C8 amended: a write of an account with an eosusdstats row, made before
\* timestamp + one_minute, is refused and changes neither that row nor the
\* window; the refusal is the rate limit when the value is in range and the
\* account is qualified, and otherwise that of the earlier check that
\* fails (range first, then qualification).
C8_RateLimited ==
    WriteTooEarly =>
        /\ result = IF ~InRange(call.value) THEN OutOfRange
                    ELSE IF ~CheckOracle(oracles, producers, call.owner) THEN NotQualified
                    ELSE RateLimited
        /\ store = pre.store
        /\ usdstore = pre.usdstore

C8_Witness ==
    /\ WriteTooEarly
    /\ result = RateLimited
    /\ ctime = GetStats(pre.store, call.owner).timestamp + one_minute - 1
    /\ store = pre.store
    /\ usdstore = pre.usdstore

----------------------------------------------------------------------------
(* C9 *)

\* The last step was an in-range write signed by its owner, who was
\* qualified and had no eosusdstats row.
FirstWrite ==
    /\ OwnWrite
    /\ InRange(call.value)
    /\ CheckOracle(pre.oracles, producers, call.owner)
    /\ ~HasStats(pre.store, call.owner)

\* C9: an in-range write of a qualified account without an eosusdstats row
\* is accepted whatever the time, and creates the row with timestamp =
\* current time and count = 0.
C9_FirstWrite ==
    FirstWrite =>
        /\ result = Ok
        /\ [owner |-> call.owner, timestamp |-> ctime, count |-> 0] \in store
        /\ \A s \in store : s.owner # call.owner => s \in pre.store

C9_Witness ==
    /\ FirstWrite
    /\ result = Ok
    /\ ctime > StartTime
    /\ GetStats(store, call.owner).count = 0

----------------------------------------------------------------------------
(* C10 *)

\* C10: a write with a value below val_min or above val_max fails with the
\* range message and leaves the three tables as they were; the values
\* val_min and val_max pass the range check.
C10_Range ==
    OwnWrite =>
        /\ ~InRange(call.value) => (result = OutOfRange /\ TablesUnchanged)
        /\ call.value \in {val_min, val_max} => result # OutOfRange

C10_Witness ==
    /\ OwnWrite
    /\ call.value = val_max + 1
    /\ result = OutOfRange
    /\ CheckOracle(oracles, producers, call.owner)
    /\ LastPushAllowed(store, call.owner, ctime)
    /\ TablesUnchanged

----------------------------------------------------------------------------
(* C11 *)

\* C11: an in-range write signed by its owner passes the qualification
\* check exactly when the owner is on the oracles list or among the active
\* producers the host reports (with an empty list, exactly the producers);
\* an owner in neither fails as not qualified, and then no eosusdstats row
\* is created or changed and no row is added to the window.
C11_Qualification ==
    (OwnWrite /\ InRange(call.value)) =>
        /\ result # NotQualified <=>
              (call.owner \in pre.oracles \/ call.owner \in producers)
        /\ pre.oracles = {} => (result # NotQualified <=> call.owner \in producers)
        /\ result = NotQualified => TablesUnchanged

C11_Witness ==
    /\ OwnWrite
    /\ InRange(call.value)
    /\ call.owner \notin pre.oracles
    /\ call.owner \notin producers
    /\ producers # {}
    /\ pre.oracles # {}
    /\ result = NotQualified
    /\ TablesUnchanged

----------------------------------------------------------------------------
(* C12 *)

\* C12: setoracles and clear signed by anyone but titan_account fail for
\* want of authority and leave the oracles list, the eosusdstats table and
\* the window as they were.
C12_Unauthorized ==
    (call.op \in {"setoracles", "clear"} /\ call.caller # titan_account) =>
        /\ result = Unauthorized
        /\ TablesUnchanged

C12_Witness ==
    /\ call.op = "setoracles"
    /\ call.caller # titan_account
    /\ call.oracleslist # <<>>
    /\ Range(call.oracleslist) # pre.oracles
    /\ result = Unauthorized
    /\ usdstore # {}
    /\ TablesUnchanged

----------------------------------------------------------------------------
(* C13 *)

\* The owner of the last write had an eosusdstats row less than one_minute
\* old when the write was made.
TooEarly ==
    /\ HasStats(pre.store, call.owner)
    /\ ctime < GetStats(pre.store, call.owner).timestamp + one_minute

Qualified == call.owner \in pre.oracles \/ call.owner \in producers

\* C13: write checks the range, then the qualification, then the rate
\* limit, and reports the first check that fails in that order; every
\* refused write leaves the three tables as they were.
C13_CheckOrder ==
    /\ OwnWrite =>
          result = IF ~InRange(call.value) THEN OutOfRange
                   ELSE IF ~Qualified THEN NotQualified
                   ELSE IF TooEarly THEN RateLimited
                   ELSE Ok
    /\ (call.op = "write" /\ result # Ok) => (TablesUnchanged /\ hist = pre.hist)

C13_Witness ==
    /\ OwnWrite
    /\ ~InRange(call.value)
    /\ ~Qualified
    /\ TooEarly
    /\ result = OutOfRange
    /\ TablesUnchanged

----------------------------------------------------------------------------
(* C14 *)

\* C14: an in-range write of a qualified account that has an eosusdstats
\* row is accepted exactly when the time is at least timestamp +
\* one_minute, the time timestamp + one_minute itself included, and is
\* refused as rate-limited before, at timestamp + one_minute - 1 too.
C14_Boundary ==
    (OwnWrite /\ InRange(call.value) /\ Qualified /\ HasStats(pre.store, call.owner)) =>
        LET last == GetStats(pre.store, call.owner)
        IN  /\ ctime >= last.timestamp + one_minute => result = Ok
            /\ ctime <= last.timestamp + one_minute - 1 => result = RateLimited

C14_Witness ==
    /\ OwnWrite
    /\ InRange(call.value)
    /\ Qualified
    /\ HasStats(pre.store, call.owner)
    /\ ctime = GetStats(pre.store, call.owner).timestamp + one_minute
    /\ result = Ok
    /\ GetStats(store, call.owner).timestamp = ctime

----------------------------------------------------------------------------
(* C15 *)

\* C15: the row of a write accepted on a window of fewer than 21 rows (the
\* empty window and the window of 20 rows included) is stored with average
\* equal to its own value.
C15_AverageIsValue ==
    (AcceptedWrite /\ Cardinality(pre.usdstore) < datapoints_count) =>
        /\ Cardinality(NewRows) = 1
        /\ \A o \in NewRows : o.value = call.value /\ o.average = call.value

C15_Witness ==
    /\ AcceptedWrite
    /\ Cardinality(pre.usdstore) = datapoints_count - 1
    /\ Cardinality(usdstore) = datapoints_count
    /\ \E o \in NewRows : o.average = o.value /\ o.value = call.value

----------------------------------------------------------------------------
(* C16 *)

\* C16 as stated: the row of a write accepted on a window that has not yet
\* filled is stored with average 0; an average other than 0 is only found
\* on a row whose insertion popped a row.
C16_Original ==
    (AcceptedWrite /\ Cardinality(pre.usdstore) < datapoints_count) =>
        \A o \in NewRows : o.average = 0

\* An id the window hands out before it is full: the first 21 ids counted
\* down from SEQ_MAX.
EarlyId(id) == id > SEQ_MAX - datapoints_count

\* C16 amended: an average that differs from the row's own value is only
\* found on a row whose insertion popped a row; every row inserted while
\* the window has not yet filled is stored with average equal to its own
\* value, which is never 0.
C16_AverageSet ==
    /\ AcceptedWrite =>
          \A o \in NewRows :
              EarlyId(o.id) <=> Cardinality(pre.usdstore) < datapoints_count
    /\ \A o \in usdstore :
          /\ o.average # o.value => ~EarlyId(o.id)
          /\ EarlyId(o.id) => (o.average = o.value /\ o.average # 0)

C16_Witness ==
    /\ AcceptedWrite
    /\ pre.usdstore = {}
    /\ \E o \in NewRows : EarlyId(o.id) /\ o.average = o.value /\ o.average # 0

----------------------------------------------------------------------------
(* C17 *)

\* C17: an accepted write leaves every row that stays in the window as it
\* was, in all five fields; the only row it writes is the one it inserts.
C17_OthersUnchanged ==
    AcceptedWrite =>
        /\ Cardinality(Ids(usdstore)) = Cardinality(usdstore)
        /\ \A o \in pre.usdstore : o.id \in Ids(usdstore) => o \in usdstore
        /\ Cardinality(Ids(usdstore) \ Ids(pre.usdstore)) = 1

C17_Witness ==
    /\ AcceptedWrite
    /\ Cardinality(pre.usdstore) = datapoints_count
    /\ Cardinality(pre.usdstore \cap usdstore) = datapoints_count - 1
    /\ \E o \in NewRows : \E p \in pre.usdstore \cap usdstore : o.average # p.average

----------------------------------------------------------------------------
(* C18 *)

\* C18: an account has an eosusdstats row exactly when it has had an
\* accepted write since the start or the last clear; the row's count is the
\* number of those writes minus 1 and its timestamp the time of the last
\* of them.  An accepted write of an account that has a row adds exactly 1
\* to the count, and an accepted write leaves the rows of all other
\* accounts as they were.
C18_Stats ==
    /\ \A a \in Accounts :
          /\ HasStats(store, a) <=> hist[a].n > 0
          /\ HasStats(store, a) =>
                /\ GetStats(store, a).count = hist[a].n - 1
                /\ GetStats(store, a).timestamp = hist[a].last
                /\ Cardinality({s \in store : s.owner = a}) = 1
    /\ AcceptedWrite =>
          /\ HasStats(pre.store, call.owner) =>
                GetStats(store, call.owner).count =
                    GetStats(pre.store, call.owner).count + 1
          /\ GetStats(store, call.owner).timestamp = ctime
          /\ {s \in store : s.owner # call.owner} =
                {s \in pre.store : s.owner # call.owner}

C18_Witness ==
    /\ AcceptedWrite
    /\ HasStats(pre.store, call.owner)
    /\ GetStats(store, call.owner).count = GetStats(pre.store, call.owner).count + 1
    /\ GetStats(store, call.owner).count = hist[call.owner].n - 1
    /\ GetStats(store, call.owner).count > 1
    /\ \E s \in store : s.owner # call.owner /\ s \in pre.store

----------------------------------------------------------------------------
(* C19 *)

StatsOwners(st) == {s.owner : s \in st}

\* C19: rows enter the window only by an accepted write and leave it only
\* by the pop of an accepted write on a full window or by a clear;
\* eosusdstats rows are created and changed only by an accepted write and
\* removed only by a clear; setoracles leaves both tables as they were, so
\* the rows of an account taken off the oracles list stay in the window.
C19_Frame ==
    /\ usdstore \ pre.usdstore # {} => AcceptedWrite
    /\ pre.usdstore \ usdstore # {} =>
          \/ ClearDone
          \/ AcceptedWrite /\ Cardinality(pre.usdstore) = datapoints_count
    /\ store \ pre.store # {} => AcceptedWrite
    /\ StatsOwners(pre.store) \ StatsOwners(store) # {} => ClearDone
    /\ call.op = "setoracles" => (usdstore = pre.usdstore /\ store = pre.store)

C19_Witness ==
    /\ call.op = "setoracles"
    /\ result = Ok
    /\ "alice" \in pre.oracles
    /\ "alice" \notin oracles
    /\ \E o \in usdstore : o.owner = "alice"
    /\ HasStats(store, "alice")
    /\ usdstore = pre.usdstore
    /\ store = pre.store

----------------------------------------------------------------------------
(* C20 *)

MinValue(usd) == CHOOSE v \in {o.value : o \in usd} : \A o \in usd : v <= o.value
MaxValue(usd) == CHOOSE v \in {o.value : o \in usd} : \A o \in usd : o.value <= v

\* C20: every row of the window has its value and its average within
\* [val_min, val_max]; the average stored by a write that popped a row lies
\* between the smallest and the largest value the window then holds.
C20_InRange ==
    /\ \A o \in usdstore : InRange(o.value) /\ InRange(o.average)
    /\ (AcceptedWrite /\ Cardinality(pre.usdstore) = datapoints_count) =>
          \A o \in NewRows :
              MinValue(usdstore) <= o.average /\ o.average <= MaxValue(usdstore)

C20_Witness ==
    /\ AcceptedWrite
    /\ Cardinality(pre.usdstore) = datapoints_count
    /\ call.value = val_max
    /\ \E o \in NewRows :
          /\ o.value = val_max
          /\ MinValue(usdstore) < o.average
          /\ o.average < MaxValue(usdstore)

====
